---- MODULE Spec2Model ----
(***************************************************************************)
(* Model of apps/ai-predictor/app.py: the AIWeatherPredictor singleton     *)
(* (load-or-bootstrap initialization, predict_weather) and the FastAPI     *)
(* route handlers that read it.                                            *)
(*                                                                         *)
(* Units.  Temperatures and wind speed are integers in thousandths         *)
(* (20000 = 20.0), humidity in percent, pressure in hPa, confidence before *)
(* rounding in ten-thousandths (9500 = 0.95).  round(x, 2) of a            *)
(* temperature gives hundredths, round(x, 3) of a confidence gives         *)
(* thousandths.                                                            *)
(***************************************************************************)
EXTENDS Integers, Sequences, FiniteSets, TLC

VARIABLES
    pc,              \* position of the process: a step of _initialize_model, or "serving"
    model,           \* self.model
    scaler,          \* self.scaler
    model_version,   \* self.model_version
    is_trained,      \* self.is_trained
    model_file,      \* contents of model.joblib on disk
    scaler_file,     \* contents of scaler.joblib on disk
    REQUEST_COUNT,   \* Counter ai_predictor_requests_total
    PREDICTION_TIME, \* number of observations of the prediction histogram
    request,         \* the request last handled by this process
    response,        \* the response to it
    raisedAt,        \* history: step of this initialization that raised, or "none"
    outcome,         \* history: how this initialization ended
    startFiles,      \* history: the two artifacts as this process found them
    prev,            \* history: the previous process when it exited
    starts           \* history: number of process starts so far

vars == <<pc, model, scaler, model_version, is_trained, model_file, scaler_file,
          REQUEST_COUNT, PREDICTION_TIME, request, response,
          raisedAt, outcome, startFiles, prev, starts>>

modelState == <<model, scaler, model_version, is_trained>>
artifacts == <<model_file, scaler_file>>

----------------------------------------------------------------------------
(* Bounds of the model. *)

MaxStarts == 2      \* process starts explored
MaxRequests == 2    \* /predict requests counted per process

----------------------------------------------------------------------------
(* Objects held by the predictor. *)

None == [kind |-> "None"]

\* RandomForestRegressor(...) as constructed: not fitted.  max_depth 0 stands
\* for the library default (no limit).
RandomForestRegressor(n_estimators, max_depth) ==
    [kind |-> "RandomForestRegressor", n_estimators |-> n_estimators,
     random_state |-> 42, max_depth |-> max_depth,
     fitted |-> FALSE, intercept |-> 0, coef |-> <<0, 0, 0, 0, 0>>]

\* StandardScaler() as constructed: not fitted.
StandardScaler ==
    [kind |-> "StandardScaler", fitted |-> FALSE,
     mean |-> <<0, 0, 0, 0, 0>>, scale |-> <<1, 1, 1, 1, 1>>]

\* The synthetic training set is drawn with np.random.seed(42) from the
\* ranges of lines 89-93, so the fitted statistics are the same on every
\* bootstrap: the centre of each range, and a spread per feature.
DummyMean == <<10000, 50, 1000, 10000, 12>>
DummyScale == <<1000, 10, 10, 1000, 1>>

\* self.scaler.fit_transform(X): the scaler fitted on the synthetic X.
scaler_fit(s) == [s EXCEPT !.fitted = TRUE, !.mean = DummyMean, !.scale = DummyScale]

\* self.model.fit(X_scaled, y) with y = X0 + 0.1*X1 - 0.05*X2 + noise: the
\* regressor keeps its hyper-parameters and learns the label function over
\* the scaled features (per scaled unit: 1 degree, 0.1*10 degree,
\* -0.05*10 degree); the intercept is the label at the centre of the ranges,
\* 10 + 0.1*50 - 0.05*1000 = -35.
model_fit(m) ==
    [m EXCEPT !.fitted = TRUE, !.intercept = -35000,
              !.coef = <<1000, 1000, -500, 0, 0>>]

\* A pre-trained pair shipped with a deployment: fitted on other data.
PretrainedModel ==
    [RandomForestRegressor(100, 10) EXCEPT !.fitted = TRUE, !.intercept = -34000,
                                           !.coef = <<1000, 1000, -500, 0, 10>>]
PretrainedScaler ==
    [StandardScaler EXCEPT !.fitted = TRUE, !.mean = <<12000, 40, 1010, 8000, 12>>,
                           !.scale = DummyScale]

----------------------------------------------------------------------------
(* joblib artifacts on disk. *)

Absent == <<>>                 \* no such file
Corrupt == <<"truncated">>     \* a file a failed dump left behind

\* joblib.dump(obj, path): the bytes written.
joblib_dump(obj) == <<"joblib", obj>>

\* os.path.exists(path)
exists(file) == file # Absent

\* joblib.load(path) returns an object iff the file is a complete dump.
loadable(file) == Len(file) = 2 /\ file[1] = "joblib"
joblib_load(file) == file[2]

----------------------------------------------------------------------------
(* The predict path, lines 111-148, as pure functions of the model state.   *)

Abs(x) == IF x < 0 THEN -x ELSE x
Min(a, b) == IF a < b THEN a ELSE b
Max(a, b) == IF a > b THEN a ELSE b

\* Python's round(x, n) where x has one decimal more than n: round half to
\* even.  \div and % round towards minus infinity, as this needs.
Round(x) ==
    LET q == x \div 10
        r == x % 10
    IN  IF r < 5 THEN q
        ELSE IF r > 5 THEN q + 1
        ELSE IF q % 2 = 0 THEN q ELSE q + 1

\* np.array([[current_temp, humidity, pressure, wind_speed, current_hour]])
Features(weather_input, current_hour) ==
    <<weather_input.current_temp, weather_input.humidity, weather_input.pressure,
      weather_input.wind_speed, current_hour>>

\* self.scaler.transform(features): (x - mean) / scale per feature.
transform(s, x) == [i \in 1..5 |-> (x[i] - s.mean[i]) \div s.scale[i]]

\* self.model.predict(features_scaled)[0]
predict(m, z) ==
    m.intercept + m.coef[1] * z[1] + m.coef[2] * z[2] + m.coef[3] * z[3]
                + m.coef[4] * z[4] + m.coef[5] * z[5]

\* Mutant of Confidence: the difference taken without abs().
Confidence_NoAbs(predicted_temp, current_temp) ==
    Min(9500, Max(6000, 10000 - (predicted_temp - current_temp)))

\* min(0.95, max(0.6, 1.0 - abs(predicted_temp - current_temp) / 10))
Confidence(predicted_temp, current_temp) ==
    Min(9500, Max(6000, 10000 - Abs(predicted_temp - current_temp)))

PredictSteps == {"features", "transform", "predict", "confidence", "response"}

\* The steps of the try block that raise: the one the environment makes
\* raise, transform on a scaler that is not fitted, predict on a regressor
\* that is not fitted.
Raises(m, s, raises) ==
    \/ raises \in PredictSteps
    \/ ~s.fitted
    \/ m.kind # "RandomForestRegressor"
    \/ ~m.fitted

NoResponse == [route |-> "none", status |-> 0, detail |-> "", body |-> <<>>]
NoRequest == [route |-> "none"]

HTTPException(route, status_code, detail) ==
    [route |-> route, status |-> status_code, detail |-> detail, body |-> <<>>]

\* The WeatherPrediction built at lines 137-144.
WeatherPrediction(m, s, version, weather_input, current_hour) ==
    LET predicted_temp == predict(m, transform(s, Features(weather_input, current_hour)))
        confidence == Confidence(predicted_temp, weather_input.current_temp)
    IN  [location |-> weather_input.location,
         predicted_temp |-> Round(predicted_temp),
         confidence |-> Round(confidence),
         forecast_hours |-> 1,
         timestamp |-> current_hour,
         model_version |-> version]

\* Mutant of PredictOutcome: the is_trained check moved inside the try block,
\* where except Exception turns its HTTPException into the 500.
PredictOutcome_CheckInsideTry(m, s, trained, version, weather_input, current_hour, raises) ==
    IF ~trained \/ Raises(m, s, raises)
    THEN HTTPException("/predict", 500, "Prediction failed")
    ELSE [route |-> "/predict", status |-> 200, detail |-> "",
          body |-> WeatherPrediction(m, s, version, weather_input, current_hour)]

\* Mutant of PredictOutcome: the except clause puts the cause in the detail.
PredictOutcome_LeaksCause(m, s, trained, version, weather_input, current_hour, raises) ==
    IF ~trained
    THEN HTTPException("/predict", 503, "Model not trained")
    ELSE IF Raises(m, s, raises)
    THEN HTTPException("/predict", 500, raises)
    ELSE [route |-> "/predict", status |-> 200, detail |-> "",
          body |-> WeatherPrediction(m, s, version, weather_input, current_hour)]

\* AIWeatherPredictor.predict_weather: the response of one call.
PredictOutcome(m, s, trained, version, weather_input, current_hour, raises) ==
    IF ~trained
    THEN HTTPException("/predict", 503, "Model not trained")
    ELSE IF Raises(m, s, raises)
    THEN HTTPException("/predict", 500, "Prediction failed")
    ELSE [route |-> "/predict", status |-> 200, detail |-> "",
          body |-> WeatherPrediction(m, s, version, weather_input, current_hour)]

----------------------------------------------------------------------------
(* Process start and AIWeatherPredictor._initialize_model, step by step.    *)
(* Every library call inside the try block may raise (\E ok); a raise goes  *)
(* to the except clause of line 77.                                         *)

Files == [model |-> model_file, scaler |-> scaler_file]

\* A new process, lines 52-56: the fields as __init__ sets them before it
\* calls _initialize_model.  The artifacts are what the disk holds.
Constructed ==
    /\ pc = "exists"
    /\ model = None
    /\ scaler = StandardScaler
    /\ model_version = "1.0.0"
    /\ is_trained = FALSE
    /\ REQUEST_COUNT = 0
    /\ PREDICTION_TIME = 0
    /\ request = NoRequest
    /\ response = NoResponse
    /\ raisedAt = "none"
    /\ outcome = "none"

\* The first start finds either no artifact or a pre-trained pair.
Init ==
    /\ Constructed
    /\ \/ model_file = Absent /\ scaler_file = Absent
       \/ model_file = joblib_dump(PretrainedModel)
          /\ scaler_file = joblib_dump(PretrainedScaler)
    /\ startFiles = Files
    /\ prev = [outcome |-> "none"]
    /\ starts = 1

served == <<REQUEST_COUNT, PREDICTION_TIME, request, response>>
history == <<startFiles, prev, starts>>

\* raise inside the try block: control goes to the except clause.
Raise(step) ==
    /\ pc' = "except"
    /\ raisedAt' = step

\* Mutant of ExistsModel: the existence test never succeeds, so every start
\* retrains.
ExistsModel_AlwaysRetrain ==
    /\ pc = "exists"
    /\ pc' = "construct"
    /\ UNCHANGED <<modelState, artifacts, served, history, raisedAt, outcome>>

\* line 63: if os.path.exists('model.joblib')
ExistsModel ==
    /\ pc = "exists"
    /\ pc' = IF exists(model_file) THEN "load_model" ELSE "construct"
    /\ UNCHANGED <<modelState, artifacts, served, history, raisedAt, outcome>>

\* line 64: self.model = joblib.load('model.joblib')
LoadModel ==
    /\ pc = "load_model"
    /\ \E ok \in BOOLEAN :
          IF ok /\ loadable(model_file)
          THEN /\ model' = joblib_load(model_file)
               /\ pc' = "load_scaler"
               /\ UNCHANGED raisedAt
          ELSE /\ Raise("load_model")
               /\ UNCHANGED model
    /\ UNCHANGED <<scaler, model_version, is_trained, artifacts, served, history, outcome>>

\* lines 65-67: self.scaler = joblib.load('scaler.joblib'); self.is_trained = True
LoadScaler ==
    /\ pc = "load_scaler"
    /\ \E ok \in BOOLEAN :
          IF ok /\ loadable(scaler_file)
          THEN /\ scaler' = joblib_load(scaler_file)
               /\ is_trained' = TRUE
               /\ pc' = "serving"
               /\ outcome' = "loaded"
               /\ UNCHANGED raisedAt
          ELSE /\ Raise("load_scaler")
               /\ UNCHANGED <<scaler, is_trained, outcome>>
    /\ UNCHANGED <<model, model_version, artifacts, served, history>>

\* lines 70-74: self.model = RandomForestRegressor(n_estimators=100, ...)
Construct ==
    /\ pc = "construct"
    /\ model' = RandomForestRegressor(100, 10)
    /\ pc' = "fit_scaler"
    /\ UNCHANGED <<scaler, model_version, is_trained, artifacts, served, history,
                   raisedAt, outcome>>

\* lines 84-99: the synthetic data and self.scaler.fit_transform(X)
FitScaler ==
    /\ pc = "fit_scaler"
    /\ \E ok \in BOOLEAN :
          IF ok
          THEN /\ scaler' = scaler_fit(scaler)
               /\ pc' = "fit_model"
               /\ UNCHANGED raisedAt
          ELSE /\ Raise("fit_scaler")
               /\ UNCHANGED scaler
    /\ UNCHANGED <<model, model_version, is_trained, artifacts, served, history, outcome>>

\* lines 102-103: self.model.fit(X_scaled, y); self.is_trained = True
FitModel ==
    /\ pc = "fit_model"
    /\ \E ok \in BOOLEAN :
          IF ok
          THEN /\ model' = model_fit(model)
               /\ is_trained' = TRUE
               /\ pc' = "dump_model"
               /\ UNCHANGED raisedAt
          ELSE /\ Raise("fit_model")
               /\ UNCHANGED <<model, is_trained>>
    /\ UNCHANGED <<scaler, model_version, artifacts, served, history, outcome>>

\* What a dump that raises leaves on disk: the file as it was (the open
\* failed) or a truncated file (the write failed).
FailedDump(file) == {file, Corrupt}

\* line 106: joblib.dump(self.model, 'model.joblib')
DumpModel ==
    /\ pc = "dump_model"
    /\ \E ok \in BOOLEAN :
          IF ok
          THEN /\ model_file' = joblib_dump(model)
               /\ pc' = "dump_scaler"
               /\ UNCHANGED raisedAt
          ELSE /\ model_file' \in FailedDump(model_file)
               /\ Raise("dump_model")
    /\ UNCHANGED <<modelState, scaler_file, served, history, outcome>>

\* lines 107-109 and 76: joblib.dump(self.scaler, 'scaler.joblib')
DumpScaler ==
    /\ pc = "dump_scaler"
    /\ \E ok \in BOOLEAN :
          IF ok
          THEN /\ scaler_file' = joblib_dump(scaler)
               /\ pc' = "serving"
               /\ outcome' = "bootstrapped"
               /\ UNCHANGED raisedAt
          ELSE /\ scaler_file' \in FailedDump(scaler_file)
               /\ Raise("dump_scaler")
               /\ UNCHANGED outcome
    /\ UNCHANGED <<modelState, model_file, served, history>>

\* lines 77-79: except Exception: self.model = RandomForestRegressor(n_estimators=50, ...)
Except ==
    /\ pc = "except"
    /\ model' = RandomForestRegressor(50, 0)
    /\ pc' = "serving"
    /\ outcome' = "degraded"
    /\ UNCHANGED <<scaler, model_version, is_trained, artifacts, served, history, raisedAt>>

_initialize_model ==
    \/ ExistsModel
    \/ LoadModel
    \/ LoadScaler
    \/ Construct
    \/ FitScaler
    \/ FitModel
    \/ DumpModel
    \/ DumpScaler
    \/ Except

----------------------------------------------------------------------------
(* The route handlers, lines 169-199.  uvicorn.run (line 203) serves them   *)
(* only after the module-level predictor = AIWeatherPredictor() of line 167 *)
(* has returned.                                                            *)

\* Request bodies, lines 35-41: WeatherInput is typed but its ranges are not
\* validated (humidity 120 is accepted).  historical_data is never read.
Observation(location, current_temp, humidity, pressure, wind_speed) ==
    [location |-> location, current_temp |-> current_temp, humidity |-> humidity,
     pressure |-> pressure, wind_speed |-> wind_speed]

WeatherInput ==
    { Observation("Oslo", 20000, 50, 1013, 5000),
      Observation("Oslo", 20000, 50, 100, 5000),
      Observation("Lima", 20500, 50, 100, 0),
      Observation("Lima", 20000, 50, 20, 5000),
      Observation("Oslo", 20005, 50, 80, 12500),
      Observation("Lima", -3250, 120, 100, 5000) }

\* datetime.now().hour
Hours == {0, 12}

\* Mutant of predict_weather: a failed prediction marks the model untrained.
predict_weather_Invalidates(weather_input, current_hour, raises) ==
    /\ pc = "serving"
    /\ REQUEST_COUNT < MaxRequests
    /\ REQUEST_COUNT' = REQUEST_COUNT + 1
    /\ PREDICTION_TIME' = PREDICTION_TIME + 1
    /\ request' = [route |-> "/predict", input |-> weather_input,
                   hour |-> current_hour, raises |-> raises]
    /\ response' = PredictOutcome(model, scaler, is_trained, model_version,
                                  weather_input, current_hour, raises)
    /\ is_trained' = (is_trained /\ response'.status # 500)
    /\ UNCHANGED <<pc, model, scaler, model_version, artifacts, history, raisedAt, outcome>>

\* POST /predict, lines 169-173 and 111-148.
predict_weather(weather_input, current_hour, raises) ==
    /\ pc = "serving"
    /\ REQUEST_COUNT < MaxRequests
    /\ REQUEST_COUNT' = REQUEST_COUNT + 1
    /\ PREDICTION_TIME' = PREDICTION_TIME + 1
    /\ request' = [route |-> "/predict", input |-> weather_input,
                   hour |-> current_hour, raises |-> raises]
    /\ response' = PredictOutcome(model, scaler, is_trained, model_version,
                                  weather_input, current_hour, raises)
    /\ UNCHANGED <<pc, modelState, artifacts, history, raisedAt, outcome>>

\* Mutant of health_check: model_trained reports that a model object exists.
health_check_ModelExists ==
    /\ pc = "serving"
    /\ request' = [route |-> "/health"]
    /\ response' = [route |-> "/health", status |-> 200, detail |-> "",
                    body |-> [status |-> "healthy", service |-> "ai-predictor",
                              model_trained |-> (model # None),
                              model_version |-> model_version]]
    /\ UNCHANGED <<pc, modelState, artifacts, REQUEST_COUNT, PREDICTION_TIME,
                   history, raisedAt, outcome>>

\* GET /health, lines 175-184.
health_check ==
    /\ pc = "serving"
    /\ request' = [route |-> "/health"]
    /\ response' = [route |-> "/health", status |-> 200, detail |-> "",
                    body |-> [status |-> "healthy", service |-> "ai-predictor",
                              model_trained |-> is_trained,
                              model_version |-> model_version]]
    /\ UNCHANGED <<pc, modelState, artifacts, REQUEST_COUNT, PREDICTION_TIME,
                   history, raisedAt, outcome>>

\* GET /metrics, lines 186-189.
metrics ==
    /\ pc = "serving"
    /\ request' = [route |-> "/metrics"]
    /\ response' = [route |-> "/metrics", status |-> 200, detail |-> "",
                    body |-> [ai_predictor_requests_total |-> REQUEST_COUNT,
                              ai_predictor_prediction_seconds_count |-> PREDICTION_TIME]]
    /\ UNCHANGED <<pc, modelState, artifacts, REQUEST_COUNT, PREDICTION_TIME,
                   history, raisedAt, outcome>>

\* GET /model/info, lines 191-199.
model_info ==
    /\ pc = "serving"
    /\ request' = [route |-> "/model/info"]
    /\ response' = [route |-> "/model/info", status |-> 200, detail |-> "",
                    body |-> [model_type |-> "RandomForestRegressor",
                              version |-> model_version,
                              trained |-> is_trained,
                              features |-> <<"temperature", "humidity", "pressure",
                                             "wind_speed", "hour_of_day">>]]
    /\ UNCHANGED <<pc, modelState, artifacts, REQUEST_COUNT, PREDICTION_TIME,
                   history, raisedAt, outcome>>

Predict ==
    \E weather_input \in WeatherInput, current_hour \in Hours,
       raises \in PredictSteps \cup {"none"} :
        predict_weather(weather_input, current_hour, raises)

\* The process is stopped and started again: a new predictor is constructed
\* (lines 167, 52-57) over the artifacts the old process left.
Restart ==
    /\ pc = "serving"
    /\ starts < MaxStarts
    /\ starts' = starts + 1
    /\ prev' = [outcome |-> outcome, model |-> model, scaler |-> scaler,
                model_version |-> model_version, is_trained |-> is_trained,
                files |-> Files]
    /\ startFiles' = Files
    /\ UNCHANGED artifacts
    /\ pc' = "exists"
    /\ model' = None
    /\ scaler' = StandardScaler
    /\ model_version' = "1.0.0"
    /\ is_trained' = FALSE
    /\ REQUEST_COUNT' = 0
    /\ PREDICTION_TIME' = 0
    /\ request' = NoRequest
    /\ response' = NoResponse
    /\ raisedAt' = "none"
    /\ outcome' = "none"

Next ==
    \/ _initialize_model
    \/ Predict
    \/ health_check
    \/ metrics
    \/ model_info
    \/ Restart

Spec == Init /\ [][Next]_vars

----------------------------------------------------------------------------
(* Helpers of the properties. *)

PredictFaults == PredictSteps \cup {"none"}

\* What a /predict request handled now would answer.
Answer(weather_input, current_hour, raises) ==
    PredictOutcome(model, scaler, is_trained, model_version,
                   weather_input, current_hour, raises)

\* The regressor's output for the request last handled, before rounding.
RawPrediction ==
    predict(model, transform(scaler, Features(request.input, request.hour)))

Predicted == response.route = "/predict" /\ response.status = 200

\* A step of this process that handles a /predict request.
PredictStep == pc = "serving" /\ REQUEST_COUNT' = REQUEST_COUNT + 1

----------------------------------------------------------------------------
(* C1: while is_trained is false, every /predict request, whatever its      *)
(* input and whatever would raise inside the try block, is answered         *)
(* 503 'Model not trained': never a prediction, never 500.                  *)
C1_UntrainedIsUnavailable ==
    (pc = "serving" /\ ~is_trained) =>
        /\ \A w \in WeatherInput, h \in Hours, r \in PredictFaults :
              Answer(w, h, r) = HTTPException("/predict", 503, "Model not trained")
        /\ response.route = "/predict" =>
              /\ response.status = 503
              /\ response.detail = "Model not trained"
              /\ response.body = <<>>

C1_Witness ==
    /\ pc = "serving"
    /\ ~is_trained
    /\ response.route = "/predict"
    /\ response.status = 503
    /\ request.raises # "none"
    /\ request.input.humidity > 100

(* C2: initialization ends trained: a complete pair of artifacts that loads *)
(* is restored; in every other case that fitting and persisting do not      *)
(* raise (artifact missing, one of the two missing, load error) a 100-tree  *)
(* regressor and a scaler are bootstrap-trained and both are persisted.     *)
C2_InitializationEndsTrained ==
    (pc = "serving" /\ raisedAt \in {"none", "load_model", "load_scaler"}) =>
        /\ is_trained
        /\ IF raisedAt = "none" /\ loadable(startFiles.model) /\ loadable(startFiles.scaler)
           THEN /\ model = joblib_load(startFiles.model)
                /\ scaler = joblib_load(startFiles.scaler)
                /\ Files = startFiles
           ELSE /\ model = model_fit(RandomForestRegressor(100, 10))
                /\ scaler = scaler_fit(StandardScaler)
                /\ model_file = joblib_dump(model)
                /\ scaler_file = joblib_dump(scaler)

(* C3: an initialization that ended in the except clause (50-tree fallback) *)
(* leaves is_trained false, wherever the error was raised, so every         *)
(* /predict of that process is answered 503.                                *)
C3_DegradedIsUntrained ==
    (pc = "serving" /\ outcome = "degraded") =>
        /\ ~is_trained
        /\ \A w \in WeatherInput, h \in Hours, r \in PredictFaults :
              Answer(w, h, r).status = 503

(* C4 as stated: the confidence of every returned WeatherPrediction equals  *)
(* clamp(1.0 - |predicted_temp - current_temp| / 10, 0.6, 0.95) itself.     *)
C4_ConfidenceIsTheClamp ==
    Predicted =>
        LET c == 10000 - Abs(RawPrediction - request.input.current_temp)
            clamp == IF c < 6000 THEN 6000 ELSE IF c > 9500 THEN 9500 ELSE c
        IN  response.body.confidence * 10 = clamp

(* C4 amended: the confidence of every returned WeatherPrediction is that   *)
(* clamp rounded to 3 decimals, so it lies in [0.6, 0.95]; forecast_hours   *)
(* is 1, the location is the request's and model_version is "1.0.0".        *)
C4_ConfidenceIsTheRoundedClamp ==
    Predicted =>
        LET c == 10000 - Abs(RawPrediction - request.input.current_temp)
            clamp == IF c < 6000 THEN 6000 ELSE IF c > 9500 THEN 9500 ELSE c
        IN  /\ response.body.confidence = Round(clamp)
            /\ 600 <= response.body.confidence
            /\ response.body.confidence <= 950
            /\ response.body.predicted_temp = Round(RawPrediction)
            /\ response.body.forecast_hours = 1
            /\ response.body.location = request.input.location
            /\ response.body.model_version = "1.0.0"

C4_Witness ==
    /\ Predicted
    /\ response.body.confidence > 600
    /\ response.body.confidence < 950
    /\ Abs(RawPrediction - request.input.current_temp) % 10 # 0

(* C5: in a trained process, a /predict whose try block raises at any step  *)
(* is answered 500 'Prediction failed' with nothing of the cause; the       *)
(* process goes on serving with its model state and artifacts unchanged.    *)
C5_FailureIsGeneric ==
    [][(PredictStep /\ is_trained /\ Raises(model, scaler, request'.raises)) =>
          /\ response' = HTTPException("/predict", 500, "Prediction failed")
          /\ pc' = "serving"
          /\ UNCHANGED <<modelState, artifacts>>]_vars

C5_Witness ==
    /\ pc = "serving"
    /\ is_trained /\ model.fitted /\ scaler.fitted
    /\ response.route = "/predict"
    /\ response.status = 500
    /\ request.raises = "transform"
    /\ REQUEST_COUNT >= 2

(* C6: once initialization has finished, no request changes is_trained,     *)
(* model_version, the regressor, the scaler or the two artifacts, and no    *)
(* request is answered before initialization has finished.                  *)
C6_FrozenAfterInitialization ==
    [][/\ (pc = "serving" /\ pc' = "serving") => UNCHANGED <<modelState, artifacts>>
       /\ (response' # response /\ response' # NoResponse) => pc = "serving"]_vars

C6_Witness ==
    /\ pc = "serving"
    /\ is_trained
    /\ REQUEST_COUNT >= 2
    /\ response.route = "/predict"
    /\ response.status = 500

(* C7: a process that starts after one that bootstrap-trained and persisted *)
(* and whose own initialization raises nothing loads that very regressor    *)
(* and scaler, without retraining or rewriting the artifacts, is trained    *)
(* with the same version, and answers every request as its predecessor did. *)
C7_RoundTripAcrossRestart ==
    (pc = "serving" /\ prev.outcome = "bootstrapped" /\ raisedAt = "none") =>
        /\ outcome = "loaded"
        /\ model = prev.model
        /\ scaler = prev.scaler
        /\ is_trained
        /\ model_version = prev.model_version
        /\ Files = prev.files
        /\ \A w \in WeatherInput, h \in Hours :
              /\ Answer(w, h, "none").status = 200
              /\ Answer(w, h, "none") =
                    PredictOutcome(prev.model, prev.scaler, prev.is_trained,
                                   prev.model_version, w, h, "none")

C7_Witness ==
    /\ pc = "serving"
    /\ prev.outcome = "bootstrapped"
    /\ outcome = "loaded"
    /\ Predicted

(* C8: /health and /model/info report is_trained as it is: false until a    *)
(* load or a training has completed, true after a successful bootstrap, and *)
(* true exactly when a /predict handled now would not be answered 503.      *)
C8_HealthReportsTrained ==
    /\ pc \in {"exists", "load_model", "load_scaler", "construct", "fit_scaler", "fit_model"}
          => ~is_trained
    /\ pc = "serving" =>
          /\ response.route = "/health" => response.body.model_trained = is_trained
          /\ response.route = "/model/info" => response.body.trained = is_trained
          /\ outcome = "bootstrapped" => is_trained
          /\ raisedAt \in {"load_model", "load_scaler", "fit_scaler", "fit_model"}
                => ~is_trained
          /\ is_trained <=> \A w \in WeatherInput, h \in Hours, r \in PredictFaults :
                               Answer(w, h, r).status # 503

C8_Witness ==
    /\ pc = "serving"
    /\ outcome = "bootstrapped"
    /\ response.route = "/health"
    /\ response.body.model_trained

(* C9: after initialization, is_trained implies that the regressor and the  *)
(* scaler held are fitted ones, never the unfitted 50-tree fallback, so a   *)
(* /predict that nothing makes raise is answered 200.                       *)
C9_TrainedImpliesFitted ==
    (pc = "serving" /\ is_trained) =>
        /\ model.fitted
        /\ model.n_estimators = 100
        /\ scaler.fitted
        /\ \A w \in WeatherInput, h \in Hours : Answer(w, h, "none").status = 200

(* C10: once initialization has finished, model.joblib and scaler.joblib    *)
(* are both present or both absent.                                         *)
C10_ArtifactsPaired ==
    pc = "serving" => (exists(model_file) <=> exists(scaler_file))

====
